---- MODULE Spec2Model ----
(***************************************************************************)
(* The post store of the JuanBabes analytics scripts (the SQLite table     *)
(* `posts`) and the operations that write it: the manual CSV import, the   *)
(* Graph-API syncs, the legacy CSV importer and the duplicate cleanup.     *)
(* Beside the store, each in a specification of its own: the loop of       *)
(* juanbabes_daemon (SpecDaemon), the start-up of its instances            *)
(* (SpecStartup) and the thread pools of fetch_all_pages (SpecPool).       *)
(*                                                                         *)
(* Conventions of the model                                                *)
(*  - a post_id is the sequence of its "_"-separated segments, so that     *)
(*    "123_456" is <<123, 456>>, "456" is <<456>> and "csv_<hash>" is      *)
(*    <<CSV_TAG, hash>>; str.split("_")[-1] is the last segment;           *)
(*  - publish_time is a number of seconds since the start of day 0, with   *)
(*    the text format it is stored in kept beside it (time_fmt);           *)
(*  - SQL NULL and Python None are the value NULL (integers) and NullText  *)
(*    (text).                                                              *)
(***************************************************************************)
EXTENDS Integers, Sequences, FiniteSets, TLC

VARIABLES
    facebook,  \* the posts the pages have on Facebook
    posts,     \* the table `posts`: a set of rows, keyed by post_id
    exports,   \* the rows of the CSV file in the exports folder
    csv,       \* import_csv: the index of the row it is at, 0 when not running
    start,     \* history: the table as the running or last import_csv found it
    runs,      \* history: runs of import_csv completed in a row, nothing between
    authIds,   \* history: the post_ids an API sync wrote
    last,      \* history: the step taken last
    steps,     \* operations started
    born,      \* history: the step each stored post was first inserted in,
               \* kept in the specification of the cleanup only
    now,       \* juanbabes_daemon: the wall clock, in five-minute slots
    pc,        \* juanbabes_daemon: "start" in main before the loop, "loop" in it
    state,     \* juanbabes_daemon: the dict `state` of main
    state_file,        \* data/daemon_state.json
    last_hourly_check, \* juanbabes_daemon: the local of main
    on_facebook,       \* the slot each new post was published in, NULL before
    stored,    \* the new posts fetch_missing_posts has inserted
    pushes,    \* history: runs of daily_push, per calendar date
    alerts,    \* history: new-post alerts delivered, per post id
    started,   \* history: the slot the daemon was first started in
    restarts,  \* history: times the daemon was killed and started again
    page_job,  \* fetch_all_pages: where the task of each page is
    waiting,   \* fetch_all_pages: process_post tasks of a page not yet started
    running,   \* fetch_all_pages: process_post tasks of a page being run
    inst,      \* juanbabes_daemon: where each started instance is in main
    pid,       \* the process id of each instance
    pid_file,  \* data/daemon.pid: the process id written in it, 0 for no file
    launched   \* history: processes started so far

storeVars ==
    <<facebook, posts, exports, csv, start, runs, authIds, last, steps, born>>

daemonVars ==
    <<now, pc, state, state_file, last_hourly_check, on_facebook, stored,
      pushes, alerts, started, restarts>>

poolVars == <<page_job, waiting, running>>

startVars == <<inst, pid, pid_file, launched>>

processVars == <<daemonVars, poolVars, startVars>>

vars == <<storeVars, processVars>>

\* ------------------------------------------------------------------ bounds

\* Operations (transactions) started in one behaviour.
MaxSteps == 3

\* Rows in one imported CSV file.
MaxBatch == 1

\* ------------------------------------------------------------- SQL values

NULL == -999

NullText == "<null>"

COALESCE(x, d) == IF x = NULL THEN d ELSE x

CoalesceText(x, d) == IF x = NullText THEN d ELSE x

\* SQLite's two-argument MAX(): the scalar maximum.
MAX(a, b) == IF a >= b THEN a ELSE b

\* SQL `x > 0`: unknown (not true) on NULL.
Positive(x) == x # NULL /\ x > 0

Abs(x) == IF x < 0 THEN -x ELSE x

\* ------------------------------------------------------------------- time

SecondsPerMinute == 60

SecondsPerDay == 86400

\* SUBSTR(publish_time, 1, 16): the ISO text up to the minute.
MinuteOf(t) == t \div SecondsPerMinute

\* SUBSTR(publish_time, 1, 10): the calendar date of the ISO text.
DateOf(t) == t \div SecondsPerDay

\* timedelta(hours=8), in seconds.
CSV_OFFSET == 28800

\* --------------------------------------------------------------- post ids

\* The literal segment "csv" of a synthetic id.
CSV_TAG == 0

PageIds == {1, 2}

\* page_lookup: lower-cased page_name -> page_id, as read from `pages`.
page_lookup == [n \in {"p1", "p2"} |-> IF n = "p1" THEN 1 ELSE 2]

\* hashlib.md5(f"{page_id}_{publish_time}").hexdigest()[:12], taken as
\* injective on the few (page, time) pairs of the model; the values are
\* disjoint from the page ids and the API post numbers.
md5(page_id, publish_time) == 1000000 * page_id + publish_time

\* An id seeded with the time alone.
synthetic_id_pageless(page_id, publish_time) == <<CSV_TAG, publish_time>>


synthetic_id(page_id, publish_time) == <<CSV_TAG, md5(page_id, publish_time)>>

IsSynthetic(post_id) == Len(post_id) = 2 /\ post_id[1] = CSV_TAG

\* -------------------------------------------------------------- the store

Metrics == {"views_count", "reach_count", "reactions_total",
            "comments_count", "shares_count"}

Ids(store) == {p.post_id : p \in store}

Row(store, post_id) == CHOOSE p \in store : p.post_id = post_id

\* post_id is the PRIMARY KEY of posts.
PrimaryKey == \A p, q \in posts : p.post_id = q.post_id => p = q

\* ------------------------------------------------- import_manual_exports

\* An unparsable "Publish time" cell, which parse_datetime_with_offset
\* returns as it is: a short text such as "n/a", which no prefix of a
\* stored publish_time equals once "+0000" is appended to it.
BAD_TIME == -1

\* datetime.strptime(...) + timedelta(hours=8); an empty cell is None, an
\* unparsable one is returned unchanged.
parse_datetime_with_offset(dt_str) ==
    IF dt_str = NULL THEN NULL
    ELSE IF dt_str = BAD_TIME THEN BAD_TIME
    ELSE dt_str + CSV_OFFSET

\* int(float(val)), 0 for an empty or unparsable cell.
safe_int(val) == IF val = NULL THEN 0 ELSE val

\* The titles of the model are at most 100 characters long and trimmed, so
\* that [:100].strip() and SUBSTR(title, 1, 100) leave them as they are.
TitleLen(title) ==
    CASE title = "" -> 0
      [] title = NullText -> 0
      [] title = "reel" -> 4
      [] title = "REEL" -> 4
      [] title = "a long caption of a reel" -> 24
      [] title = "nineteen characters" -> 19
      [] title = "twenty characters ok" -> 20
      [] title = "twenty-one characters" -> 21
      [] OTHER -> 10

\* SQL LOWER() and str.lower().
LOWER(title) == IF title = "REEL" THEN "reel" ELSE title

\* page_name.lower().replace(" ", "")
Stripped(name) == IF name = "p 1" THEN "p1" ELSE name

\* import_csv, lines 84-92: the exact lookup, then the first page whose
\* stripped name contains, or is contained in, the row's stripped name.
resolve_page(page_name) ==
    IF page_name \in DOMAIN page_lookup THEN page_lookup[page_name]
    ELSE IF Stripped(page_name) \in DOMAIN page_lookup
         THEN page_lookup[Stripped(page_name)]
         ELSE NULL

\* WHERE page_id = ? AND SUBSTR(publish_time, 1, 16) = ?
ExactHits(store, page_id, t) ==
    {p \in store : /\ p.page_id = page_id
                   /\ p.time_fmt = "iso"
                   /\ MinuteOf(p.publish_time) = MinuteOf(t)}

FuzzyOffsets ==
    <<-1, 1, -2, 2, -3, 3, -4, 4, -5, 5, -6, 6, -7, 7, -8, 8, -9, 9, -10, 10>>

\* A fuzzy tier that stops at nine minutes.
FuzzyHits_nine(store, page_id, t) ==
    LET at(k) == ExactHits(store, page_id, t + FuzzyOffsets[k] * SecondsPerMinute)
        ks == {k \in 1..(Len(FuzzyOffsets) - 2) : at(k) # {}}
    IN IF ks = {} THEN {}
       ELSE at(CHOOSE k \in ks : \A j \in ks : k <= j)

\* A fuzzy tier that takes the hits of the last offset that has any.
FuzzyHits_farthest(store, page_id, t) ==
    LET at(k) == ExactHits(store, page_id, t + FuzzyOffsets[k] * SecondsPerMinute)
        ks == {k \in 1..Len(FuzzyOffsets) : at(k) # {}}
    IN IF ks = {} THEN {}
       ELSE at(CHOOSE k \in ks : \A j \in ks : k >= j)

\* The hits of the first offset, in the order of the list, that has any.
FuzzyHits(store, page_id, t) ==
    LET at(k) == ExactHits(store, page_id, t + FuzzyOffsets[k] * SecondsPerMinute)
        ks == {k \in 1..Len(FuzzyOffsets) : at(k) # {}}
    IN IF ks = {} THEN {}
       ELSE at(CHOOSE k \in ks : \A j \in ks : k <= j)

\* ... AND SUBSTR(publish_time, 1, 10) = ? AND LOWER(SUBSTR(title, 1, 100)) = LOWER(?)
TitleDateHits(store, page_id, t, title) ==
    {p \in store : /\ p.page_id = page_id
                   /\ p.time_fmt = "iso"
                   /\ t # BAD_TIME
                   /\ DateOf(p.publish_time) = DateOf(t)
                   /\ p.title # NullText
                   /\ LOWER(p.title) = LOWER(title)}

TitleHits(store, page_id, title) ==
    {p \in store : /\ p.page_id = page_id
                   /\ p.title # NullText
                   /\ LOWER(p.title) = LOWER(title)}

\* len(title) > 20
TITLE_MIN_LEN == 20

\* best_diff = 3600
BEST_DIFF == 3600

\* Candidates taken whatever their views.
ClosestCandidates_any_views(store, page_id, t) ==
    {p \in store : /\ p.page_id = page_id
                   /\ p.time_fmt = "iso"
                   /\ DateOf(p.publish_time) = DateOf(t)}

\* The candidates of the closest-time fallback: same page, same date, not
\* among the posts with views_count > 0.
ClosestCandidates(store, page_id, t) ==
    {p \in store : /\ p.page_id = page_id
                   /\ p.time_fmt = "iso"
                   /\ DateOf(p.publish_time) = DateOf(t)
                   /\ ~Positive(p.views_count)}

\* A candidate nearer than best_diff and no farther than any other; of
\* several equally near the loop keeps the first the query returned.
ClosestHits(store, page_id, t) ==
    LET cands == ClosestCandidates(store, page_id, t)
        diff(p) == Abs(p.publish_time - t)
    IN {p \in cands : /\ diff(p) < BEST_DIFF
                      /\ \A q \in cands : diff(p) <= diff(q)}

\* A resolver that tries the titles before the times.
Resolve_titles_first(store, page_id, t, title) ==
    LET timed == t # BAD_TIME
        exact == IF timed THEN ExactHits(store, page_id, t) ELSE {}
        fuzzy == IF timed THEN FuzzyHits(store, page_id, t) ELSE {}
        sameDate == IF title # "" THEN TitleDateHits(store, page_id, t, title) ELSE {}
        anyDate == IF title # "" /\ TitleLen(title) > TITLE_MIN_LEN
                   THEN TitleHits(store, page_id, title) ELSE {}
        closest == IF timed THEN ClosestHits(store, page_id, t) ELSE {}
    IN IF sameDate # {} THEN sameDate
       ELSE IF anyDate # {} THEN anyDate
       ELSE IF exact # {} THEN exact
       ELSE IF fuzzy # {} THEN fuzzy
       ELSE closest

\* A resolver whose any-date title tier takes a title of any length.
Resolve_any_title(store, page_id, t, title) ==
    LET timed == t # BAD_TIME
        exact == IF timed THEN ExactHits(store, page_id, t) ELSE {}
        fuzzy == IF timed THEN FuzzyHits(store, page_id, t) ELSE {}
        sameDate == IF title # "" THEN TitleDateHits(store, page_id, t, title) ELSE {}
        anyDate == IF title # "" THEN TitleHits(store, page_id, title) ELSE {}
        closest == IF timed THEN ClosestHits(store, page_id, t) ELSE {}
    IN IF exact # {} THEN exact
       ELSE IF fuzzy # {} THEN fuzzy
       ELSE IF sameDate # {} THEN sameDate
       ELSE IF anyDate # {} THEN anyDate
       ELSE closest

\* The posts the tiers of import_csv may return for a row: the hits of the
\* first tier that has any (LIMIT 1 returns one of them).
Resolve(store, page_id, t, title) ==
    LET timed == t # BAD_TIME
        exact == IF timed THEN ExactHits(store, page_id, t) ELSE {}
        fuzzy == IF timed THEN FuzzyHits(store, page_id, t) ELSE {}
        sameDate == IF title # "" THEN TitleDateHits(store, page_id, t, title) ELSE {}
        anyDate == IF title # "" /\ TitleLen(title) > TITLE_MIN_LEN
                   THEN TitleHits(store, page_id, title) ELSE {}
        closest == IF timed THEN ClosestHits(store, page_id, t) ELSE {}
    IN IF exact # {} THEN exact
       ELSE IF fuzzy # {} THEN fuzzy
       ELSE IF sameDate # {} THEN sameDate
       ELSE IF anyDate # {} THEN anyDate
       ELSE closest

\* The total_engagement the UPDATE of import_csv stores.
MergedEngagement(old, reactions, comments, shares) ==
    MAX(COALESCE(old, 0), reactions + comments + shares)

\* A merge that stores the counts of the row as they come.
MergeCsv_overwrite(p, row) ==
    [p EXCEPT
       !.views_count = safe_int(row.views),
       !.reach_count = safe_int(row.reach),
       !.reactions_total = safe_int(row.reactions),
       !.comments_count = safe_int(row.comments),
       !.shares_count = safe_int(row.shares),
       !.total_engagement =
           safe_int(row.reactions) + safe_int(row.comments)
               + safe_int(row.shares)]

\* UPDATE posts SET views_count = MAX(COALESCE(views_count, 0), ?), ...
MergeCsv(p, row) ==
    [p EXCEPT
       !.views_count = MAX(COALESCE(@, 0), safe_int(row.views)),
       !.reach_count = MAX(COALESCE(@, 0), safe_int(row.reach)),
       !.reactions_total = MAX(COALESCE(@, 0), safe_int(row.reactions)),
       !.comments_count = MAX(COALESCE(@, 0), safe_int(row.comments)),
       !.shares_count = MAX(COALESCE(@, 0), safe_int(row.shares)),
       !.total_engagement =
           MergedEngagement(@, safe_int(row.reactions), safe_int(row.comments),
                            safe_int(row.shares))]

\* INSERT INTO posts (...) of import_csv: a post under a synthetic id.
NewCsvPost(page_id, t, row) ==
    [post_id |-> synthetic_id(page_id, t),
     page_id |-> page_id,
     title |-> row.title,
     permalink |-> NullText,
     post_type |-> row.post_type,
     publish_time |-> t,
     time_fmt |-> IF t = BAD_TIME THEN "raw" ELSE "iso",
     views_count |-> safe_int(row.views),
     reach_count |-> safe_int(row.reach),
     reactions_total |-> safe_int(row.reactions),
     comments_count |-> safe_int(row.comments),
     shares_count |-> safe_int(row.shares),
     total_engagement |-> safe_int(row.reactions) + safe_int(row.comments)
                          + safe_int(row.shares)]

\* A row import_csv skips: no Post ID or page name, an unknown page, an
\* empty publish time.
Skipped(row) ==
    \/ row.post_id = ""
    \/ row.page_name = ""
    \/ resolve_page(row.page_name) = NULL
    \/ parse_datetime_with_offset(row.publish_time) = NULL

Replace(store, old, new) == (store \ {old}) \cup {new}

\* -------------------------------------------------------- the Graph API

\* 31 days: the model's times all lie in one month of that length.
SecondsPerMonth == 2678400

\* SUBSTR(publish_time, 1, 7)
MonthOf(t) == t \div SecondsPerMonth

\* The posts the pages have on Facebook. The API names a post
\* "<page id>_<post number>".
ApiPosts ==
    {[id |-> <<1, 11>>, page_id |-> 1, created_time |-> 36030,
      message |-> "reel", permalink_url |-> "fb/11", post_type |-> "Videos"],
     [id |-> <<2, 21>>, page_id |-> 2, created_time |-> 122400,
      message |-> "", permalink_url |-> "fb/21", post_type |-> "Photos"]}

\* The counts one request may report for a post: they rise and fall on
\* Facebook between two requests.
ApiMetrics ==
    {[reactions |-> 2, comments |-> 0, shares |-> 0],
     [reactions |-> 0, comments |-> 1, shares |-> 0]}

\* What process_post and get_post_details report when the request fails.
FailedMetrics == [reactions |-> 0, comments |-> 0, shares |-> 0]

\* fetch_video_views: the views of a video, 0 when it has none.
ApiViews == {0, 4}

Obs(a, m, v) ==
    [id |-> a.id, page_id |-> a.page_id, created_time |-> a.created_time,
     message |-> a.message, permalink_url |-> a.permalink_url,
     post_type |-> a.post_type, reactions |-> m.reactions,
     comments |-> m.comments, shares |-> m.shares, views |-> v]

\* The answers to one fetch of the posts in `among`: any of them (a page
\* whose request fails contributes none), each with the counts of the moment.
Responses(among, metrics, views) ==
    UNION {{{Obs(a, f[a][1], f[a][2]) : a \in S} : f \in [S -> metrics \X views]}
           : S \in SUBSET among}

\* A core id that keeps the page prefix.
get_core_id_whole(post_id) == post_id

\* post_id_str.split('_')[-1]: the segment after the last underscore.
get_core_id(post_id) == <<post_id[Len(post_id)]>>

\* The row the API syncs write for an observation, under `post_id`.
ApiRow(post_id, page_id, o, views) ==
    [post_id |-> post_id,
     page_id |-> page_id,
     title |-> o.message,
     permalink |-> o.permalink_url,
     post_type |-> o.post_type,
     publish_time |-> o.created_time,
     time_fmt |-> "iso",
     views_count |-> views,
     reach_count |-> NULL,
     reactions_total |-> o.reactions,
     comments_count |-> o.comments,
     shares_count |-> o.shares,
     total_engagement |-> o.reactions + o.comments + o.shares]

\* A write that empties the table first.
InsertOrReplace_truncate(store, rows) == rows

\* INSERT OR REPLACE INTO posts: the rows of the same keys are replaced
\* whole, the columns the statement does not name falling back to NULL.
InsertOrReplace(store, rows) ==
    {p \in store : p.post_id \notin Ids(rows)} \cup rows

\* INSERT OR IGNORE INTO posts
InsertOrIgnore(store, rows) ==
    store \cup {r \in rows : r.post_id \notin Ids(store)}

\* scheduled_sync.save_posts_to_db: the posts of one page, keyed by the
\* post number.
save_posts_to_db(store, page_id, resp) ==
    InsertOrReplace(store,
        {ApiRow(get_core_id(o.id), page_id, o, NULL) : o \in resp})

\* fetch_all_pages.save_results: the posts of every page that answered,
\* keyed by the id as the API gave it.
save_results(store, resp) ==
    InsertOrReplace(store, {ApiRow(o.id, o.page_id, o, NULL) : o \in resp})

\* No date counts as having CSV data.
get_csv_dates_none(store) == {}

\* fetch_missing_posts.get_csv_dates
get_csv_dates(store) ==
    {DateOf(p.publish_time) :
        p \in {q \in store : Positive(q.views_count) /\ q.time_fmt \in {"iso", "mdy"}}}

\* fetch_missing_posts.update_post_engagement
update_post_engagement(p, o) ==
    IF p.views_count = NULL \/ p.views_count = 0
    THEN [p EXCEPT !.reactions_total = o.reactions,
                   !.comments_count = o.comments,
                   !.shares_count = o.shares,
                   !.total_engagement = o.reactions + o.comments + o.shares]
    ELSE p

\* fetch_missing_posts.main: posts not stored yet are inserted unless their
\* date has CSV data; posts stored already get their engagement refreshed.
fetch_missing_posts(store, resp) ==
    LET csv_dates == get_csv_dates(store)
        existing_ids == Ids(store)
        new_posts == {o \in resp : o.id \notin existing_ids}
        saved == {o \in new_posts : DateOf(o.created_time) \notin csv_dates}
        existing_posts == {o \in resp : o.id \in existing_ids}
        refreshed(p) ==
            IF \E o \in existing_posts : o.id = p.post_id
            THEN update_post_engagement(p,
                    CHOOSE o \in existing_posts : o.id = p.post_id)
            ELSE p
    IN InsertOrIgnore({refreshed(p) : p \in store},
                      {ApiRow(o.id, o.page_id, o, NULL) : o \in saved})

\* refresh_engagement.refresh_single_post: the answer to the request for
\* "<page_id>_<post_id>", none for a synthetic post, for a request that
\* fails and for an id that request does not name a post with.
refresh_single_post(p, resp) ==
    IF IsSynthetic(p.post_id) THEN {}
    ELSE {o \in resp : o.id = <<p.page_id>> \o p.post_id}

\* refresh_engagement.main: the counts of every post that got an answer
\* are replaced by those of the answer.
refresh_engagement(store, resp) ==
    LET refreshed(p) ==
            LET result == refresh_single_post(p, resp)
            IN IF result = {} THEN p
               ELSE LET o == CHOOSE o \in result : TRUE
                    IN [p EXCEPT !.reactions_total = o.reactions,
                                 !.comments_count = o.comments,
                                 !.shares_count = o.shares,
                                 !.total_engagement =
                                     o.reactions + o.comments + o.shares]
    IN {refreshed(p) : p \in store}

\* A month sync that deletes nothing.
MonthDeleted_none(store, month, resp) == {}

\* The posts sync_month_to_db deletes: stored for the month, not in the API.
MonthDeleted(store, month, resp) ==
    {p \in store : /\ p.time_fmt = "iso"
                   /\ MonthOf(p.publish_time) = month
                   /\ p.post_id \notin {get_core_id(o.id) : o \in resp}}

\* UPDATE posts SET title = ?, permalink = ?, post_type = ?, reactions_total = ?, ...
MonthUpdate(p, o) ==
    [p EXCEPT !.title = o.message,
              !.permalink = o.permalink_url,
              !.post_type = o.post_type,
              !.reactions_total = o.reactions,
              !.comments_count = o.comments,
              !.shares_count = o.shares,
              !.total_engagement = o.reactions + o.comments + o.shares]

\* full_month_sync.sync_month_to_db
sync_month_to_db(store, month, resp) ==
    LET api_posts == {o \in resp : MonthOf(o.created_time) = month}
        kept == store \ MonthDeleted(store, month, api_posts)
        byId(id) == CHOOSE o \in api_posts : get_core_id(o.id) = id
        api_ids == {get_core_id(o.id) : o \in api_posts}
    IN {IF p.post_id \in api_ids THEN MonthUpdate(p, byId(p.post_id)) ELSE p
           : p \in kept}
       \cup {ApiRow(get_core_id(o.id), o.page_id, o, NULL) :
               o \in {x \in api_posts : get_core_id(x.id) \notin Ids(kept)}}

\* full_month_sync.sync_project: nothing is synced when the API returned
\* no post for the month.
sync_project(store, month, resp) ==
    IF {o \in resp : MonthOf(o.created_time) = month} = {} THEN store
    ELSE sync_month_to_db(store, month, resp)

\* The posts sync_t1_data_from_api deletes: stored for the date, not in the API.
DateDeleted(store, date, resp) ==
    {p \in store : /\ p.time_fmt = "iso"
                   /\ DateOf(p.publish_time) = date
                   /\ p.post_id \notin {get_core_id(o.id) : o \in resp}}

\* UPDATE posts SET reactions_total = ?, ..., views_count = ?, total_engagement = ?
T1Update(p, o) ==
    [p EXCEPT !.reactions_total = o.reactions,
              !.comments_count = o.comments,
              !.shares_count = o.shares,
              !.views_count = o.views,
              !.total_engagement = o.reactions + o.comments + o.shares]

\* send_daily_report_v2.sync_t1_data_from_api, called only with a
\* non-empty list of the posts the API has for the date.
sync_t1_data_from_api(store, date, resp) ==
    LET api_posts == {o \in resp : DateOf(o.created_time) = date}
        kept == store \ DateDeleted(store, date, api_posts)
        byId(id) == CHOOSE o \in api_posts : get_core_id(o.id) = id
        api_ids == {get_core_id(o.id) : o \in api_posts}
    IN IF api_posts = {} THEN store
       ELSE {IF p.post_id \in api_ids THEN T1Update(p, byId(p.post_id)) ELSE p
               : p \in kept}
            \cup {ApiRow(get_core_id(o.id), o.page_id, o, o.views) :
                    o \in {x \in api_posts : get_core_id(x.id) \notin Ids(kept)}}

\* ------------------------------------------------------ cleanup_duplicates

\* COALESCE(total_engagement, 0) as eng
Eng(p) == COALESCE(p.total_engagement, 0)

\* A grouping that puts every post in a group of its own.
Group_alone(store, p) == {p}

\* groups[(page_id, core_id)]
Group(store, p) ==
    {q \in store : /\ q.page_id = p.page_id
                   /\ get_core_id(q.post_id) = get_core_id(p.post_id)}

\* items_sorted[0]: a member of the highest engagement; among equals the
\* stable sort keeps the one the unordered SELECT returned first.
Keepers(g) == {k \in g : \A q \in g : Eng(k) >= Eng(q)}

\* The tables cleanup_duplicates may leave: of every group one keeper.
cleanup_duplicates(store) ==
    {S \in SUBSET store :
        \A p \in store : /\ Cardinality(S \cap Group(store, p)) = 1
                         /\ S \cap Group(store, p) \subseteq Keepers(Group(store, p))}

\* ------------------------------------------------------------ csv_importer

\* csv_importer.parse_datetime: the time plus PHT_OFFSET, written back as
\* '%m/%d/%Y %H:%M' (the seconds are dropped); None for an empty cell.
parse_datetime(value) ==
    IF value = NULL THEN NULL
    ELSE ((value + CSV_OFFSET) \div SecondsPerMinute) * SecondsPerMinute

\* database.upsert_post: INSERT ... ON CONFLICT(post_id) DO UPDATE SET
\* title = COALESCE(excluded.title, posts.title), ...
upsert_post(store, row) ==
    LET t == parse_datetime(row.publish_time)
    IN IF row.post_id \in Ids(store)
       THEN LET p == Row(store, row.post_id)
            IN Replace(store, p,
                 [p EXCEPT !.title = CoalesceText(row.title, @),
                           !.post_type = CoalesceText(row.post_type, @),
                           !.permalink = CoalesceText(row.permalink, @),
                           !.publish_time = COALESCE(t, @),
                           !.time_fmt = IF t = NULL THEN @ ELSE "mdy"])
       ELSE store \cup
            {[post_id |-> row.post_id,
              page_id |-> row.page_id,
              title |-> row.title,
              permalink |-> row.permalink,
              post_type |-> row.post_type,
              publish_time |-> t,
              time_fmt |-> IF t = NULL THEN "null" ELSE "mdy",
              views_count |-> NULL,
              reach_count |-> NULL,
              reactions_total |-> NULL,
              comments_count |-> NULL,
              shares_count |-> NULL,
              total_engagement |-> NULL]}

\* csv_importer.import_csv, one row: 'append' skips a post_id that is
\* stored; 'merge' and 'replace' upsert it.
legacy_row(store, mode, row) ==
    IF row.post_id = <<>> THEN store
    ELSE IF mode = "append" /\ row.post_id \in Ids(store) THEN store
    ELSE upsert_post(store, row)

RECURSIVE legacy_import(_, _, _)
legacy_import(store, mode, rows) ==
    IF rows = <<>> THEN store
    ELSE legacy_import(legacy_row(store, mode, Head(rows)), mode, Tail(rows))

\* ------------------------------------------------------------- the inputs

\* The counts of a row of the manual export.
CsvCounts ==
    {[views |-> 5, reach |-> 8, reactions |-> 0, comments |-> 1, shares |-> 0],
     [views |-> 0, reach |-> 0, reactions |-> 3, comments |-> 0, shares |-> 0]}

\* "Publish time" cells (UTC): 02:00, the minute of API post 11 once the
\* offset is added, and 02:30, half an hour after it.
CsvTimes == {7200, 9000}

CsvRow(page_name, t, title, c) ==
    [page_name |-> page_name, post_id |-> "1.22E+17", publish_time |-> t,
     title |-> title, post_type |-> "Videos",
     views |-> c.views, reach |-> c.reach, reactions |-> c.reactions,
     comments |-> c.comments, shares |-> c.shares]

\* The row of the first time carries the caption of API post 11, the row of
\* the second none.
CsvRows ==
    {CsvRow("p1", t, IF t = 7200 THEN "reel" ELSE "", c) :
        t \in CsvTimes, c \in CsvCounts}

SeqsUpTo(S, n) == UNION {[1..k -> S] : k \in 1..n}

CsvFiles == SeqsUpTo(CsvRows, MaxBatch)

\* Rows of the export csv_importer reads: a Post ID the export kept exact,
\* and one it corrupted.
LegacyRows ==
    {[post_id |-> id, page_id |-> 1, title |-> title, post_type |-> "Reels",
      permalink |-> NullText, publish_time |-> 7200]
        : id \in {<<11>>, <<12>>}, title \in {NullText, "csv title"}}

LegacyModes == {"merge", "append", "replace"}

\* ------------------------------------------------------ juanbabes_daemon

\* The schedule of the daemon and the limits it gives its subprocesses.
PUSH_HOUR == 6

PUSH_MINUTE == 0

\* The push is due while now.minute < PUSH_MINUTE + 5.
PUSH_WINDOW == 5

CHECK_INTERVAL == 3600

\* fetch_api gives fetch_missing_posts.py ten minutes, daily_push gives
\* send_daily_report_v2.py five.
FETCH_TIMEOUT == 600

REPORT_TIMEOUT == 300

\* get_recent_posts(hours=2); state["notified_posts"] keeps the last 500.
RECENT_HOURS == 2

NOTIFIED_KEEP == 500

\* The daemon's clock is counted in slots of the length of the push window,
\* so that 06:00..06:04 is one slot; slot 0 starts date 0 at 00:00.
SlotSeconds == PUSH_WINDOW * SecondsPerMinute

SlotsPerHour == (60 * SecondsPerMinute) \div SlotSeconds

SlotsPerDay == SecondsPerDay \div SlotSeconds

\* now.strftime('%Y-%m-%d'), now.hour and now.minute of a slot (the minute
\* is that of the slot's start; the test made on it has the same outcome
\* for every minute of the slot).
Today(t) == t \div SlotsPerDay

Hour(t) == (t % SlotsPerDay) \div SlotsPerHour

Minute(t) == (t % SlotsPerHour) * PUSH_WINDOW

\* The first condition of the loop of main.
PushDue(t, st) ==
    /\ Hour(t) = PUSH_HOUR
    /\ Minute(t) >= PUSH_MINUTE
    /\ Minute(t) < PUSH_MINUTE + PUSH_WINDOW
    /\ st.last_push_date # Today(t)

\* The second: an hour has gone by since the check made last.
CheckDue(t, lhc) == lhc = NULL \/ (t - lhc) * SlotSeconds >= CHECK_INTERVAL

\* The slot boundaries a run of hourly_check, of daily_push and of
\* time.sleep(30) may cross.
CheckDurations == 0..(FETCH_TIMEOUT \div SlotSeconds)

PushDurations == 0..(REPORT_TIMEOUT \div SlotSeconds)

SleepDurations == {0, 1}

\* The hours after the push hour a behaviour of the daemon covers.
MaxHours == 2

\* Times the daemon is killed and started again.
MaxRestarts == 1

Horizon == (PUSH_HOUR + MaxHours) * SlotsPerHour

Dates == 0..Today(Horizon)

\* The daemon is started five minutes, an hour, or an hour and five minutes
\* before the push hour of date 0.
StartSlots == {PUSH_HOUR * SlotsPerHour - k : k \in {1, SlotsPerHour, SlotsPerHour + 1}}

\* load_state on a missing or unreadable file.
DefaultState == [last_push_date |-> NULL, notified_posts |-> <<>>]

\* The new posts of the pages, by the last segment of their id.
NewPosts == {11}

Range(q) == {q[i] : i \in 1..Len(q)}

\* notified[-500:]
KeepLast(q, n) == IF Len(q) <= n THEN q ELSE SubSeq(q, Len(q) - n + 1, Len(q))

\* get_recent_posts(hours) at slot t: the stored posts published since
\* t - hours.
get_recent_posts(table, published, t, hours) ==
    {p \in table : published[p] >= t - hours * SlotsPerHour}

\* The posts in the order of the SELECT (publish_time DESC).
RECURSIVE Newest(_, _)
Newest(S, published) ==
    IF S = {} THEN <<>>
    ELSE LET p == CHOOSE x \in S : \A y \in S : published[y] <= published[x]
         IN <<p>> \o Newest(S \ {p}, published)

\* notify_new_posts: an alert is sent for every post not in notified_posts;
\* the posts of `ok` are those whose send returns ok, and only they are
\* appended.  The result is the state left and the posts an alert went to.
RECURSIVE Notify(_, _, _)
Notify(q, notified, ok) ==
    IF q = <<>> THEN [notified |-> notified, sent |-> {}]
    ELSE LET p == Head(q)
             skip == p \in Range(notified)
             mine == IF ~skip /\ p \in ok THEN Append(notified, p) ELSE notified
             rest == Notify(Tail(q), mine, ok)
         IN [notified |-> rest.notified,
             sent |-> rest.sent \cup (IF skip THEN {} ELSE {p})]

notify_new_posts(q, st, ok) ==
    LET r == Notify(q, st.notified_posts, ok)
    IN [state |-> [st EXCEPT !.notified_posts = KeepLast(r.notified, NOTIFIED_KEEP)],
        sent |-> r.sent]

\* The alerts delivered after those of `sent` for which the send was ok.
Delivered(count, sent, ok) ==
    [p \in NewPosts |-> IF p \in sent \cap ok THEN count[p] + 1 ELSE count[p]]

\* While another specification runs the daemon is not started.
NoDaemon ==
    /\ now = 0
    /\ pc = "off"
    /\ state = DefaultState
    /\ state_file = DefaultState
    /\ last_hourly_check = NULL
    /\ on_facebook = [p \in NewPosts |-> NULL]
    /\ stored = {}
    /\ pushes = [d \in Dates |-> 0]
    /\ alerts = [p \in NewPosts |-> 0]
    /\ started = 0
    /\ restarts = 0

\* ------------------------------------------ the pools of fetch_all_pages

\* ThreadPoolExecutor(max_workers=5), in main and in fetch_single_page.
MAX_WORKERS == 5

\* The pages of page_tokens.json and the posts a page may have.
MaxPages == 2

MaxPosts == 6

Labels == 1..MaxPages

\* While another specification runs fetch_all_pages is not started.
NoPool ==
    /\ page_job = [l \in Labels |-> "done"]
    /\ waiting = [l \in Labels |-> 0]
    /\ running = [l \in Labels |-> 0]

\* ------------------------------------------- the start-up of the daemon

\* The instances of the daemon started side by side, and the processes
\* started in one behaviour.
Instances == {1, 2}

MaxLaunches == 3

\* kernel32.OpenProcess(0x1000, False, old_pid) returns a handle: a process
\* of that id exists.
OpenProcess(old_pid) == \E i \in Instances : inst[i] # "off" /\ pid[i] = old_pid

\* check_already_running: the PID file exists and names a live process.
check_already_running == pid_file # 0 /\ OpenProcess(pid_file)

\* While another specification runs no instance is started.
NoStartup ==
    /\ inst = [i \in Instances |-> "off"]
    /\ pid = [i \in Instances |-> 0]
    /\ pid_file = 0
    /\ launched = 0

NoProcesses == NoDaemon /\ NoPool /\ NoStartup



\* ------------------------------------------------------------ the actions

\* The value of `born` where the history of insertions is not kept.
NoHistory == [id \in {<<>>} |-> 0]

\* The history of insertions after a step that leaves `table`: a post that
\* was there keeps its step, a new one gets the number of this step.
Born(table, step) ==
    IF born = NoHistory THEN born
    ELSE [id \in DOMAIN born \cup Ids(table) |->
            IF id \in DOMAIN born THEN born[id] ELSE step]

Step(op, ids, before, rows, resp, period) ==
    [op |-> op, ids |-> ids, before |-> before, rows |-> rows, resp |-> resp,
     period |-> period, failed |-> {}, mode |-> ""]

Idle == csv = 0

Init ==
    /\ facebook = {a \in ApiPosts : a.page_id = 1}
    /\ posts = {}
    /\ exports \in CsvFiles
    /\ csv = 0
    /\ start = {}
    /\ runs = 0
    /\ authIds = {}
    /\ last = Step("init", {}, {}, {}, {}, 0)
    /\ steps = 0
    /\ born = NoHistory
    /\ NoProcesses

\* import_manual_exports.import_csv opens the file.
ImportCsvBegin ==
    /\ Idle
    /\ steps < MaxSteps
    /\ csv' = 1
    /\ start' = posts
    /\ steps' = steps + 1
    /\ last' = Step("csv_begin", {}, posts, {}, {}, 0)
    /\ UNCHANGED <<facebook, posts, exports, runs, authIds, born>>
    /\ UNCHANGED processVars

\* What one turn of the loop of import_csv may do with a row on a table:
\* the branch taken, the id of the post written and the table left.
import_row(store, row) ==
    LET page_id == resolve_page(row.page_name)
        t == parse_datetime_with_offset(row.publish_time)
        hits == Resolve(store, page_id, t, row.title)
        new == NewCsvPost(page_id, t, row)
        out(op, ids, table) == [op |-> op, ids |-> ids, posts |-> table]
    IN IF Skipped(row)
       THEN {out("csv_skip", {}, store)}
       ELSE IF hits # {}
       THEN {out("csv_update", {m.post_id}, Replace(store, m, MergeCsv(m, row)))
               : m \in hits}
       ELSE IF new.post_id \in Ids(store)
       THEN LET m == Row(store, new.post_id)
            IN {out("csv_update_synthetic", {m.post_id},
                    Replace(store, m, MergeCsv(m, row)))}
       ELSE {out("csv_create", {new.post_id}, store \cup {new})}

\* One turn of the loop over the rows; after the last row the import
\* commits and returns.
ImportCsvRow ==
    /\ csv \in 1..Len(exports)
    /\ \E r \in import_row(posts, exports[csv]) :
         /\ posts' = r.posts
         /\ last' = Step(r.op, r.ids, posts, {exports[csv]}, {}, 0)
    /\ csv' = IF csv = Len(exports) THEN 0 ELSE csv + 1
    /\ runs' = IF csv = Len(exports) THEN runs + 1 ELSE runs
    /\ authIds' = authIds
    /\ born' = Born(posts', steps)
    /\ UNCHANGED <<facebook, exports, start, steps>>
    /\ UNCHANGED processVars

\* An operation starts when no import is running.
CanStart == Idle /\ steps < MaxSteps

\* What every other operation does to the history.
Other(op, written, resp, period) ==
    /\ steps' = steps + 1
    /\ born' = Born(posts', steps + 1)
    /\ runs' = 0
    /\ authIds' = (authIds \cup written) \cap Ids(posts')
    /\ last' = Step(op, written, posts, {}, resp, period)
    /\ UNCHANGED <<facebook, exports, csv, start>>
    /\ UNCHANGED processVars

\* The same for a run over all pages, during which the fetch of the pages
\* `failed` returned an error.
OtherPages(op, written, resp, period, failed) ==
    /\ steps' = steps + 1
    /\ born' = Born(posts', steps + 1)
    /\ runs' = 0
    /\ authIds' = (authIds \cup written) \cap Ids(posts')
    /\ last' = [Step(op, written, posts, {}, resp, period) EXCEPT !.failed = failed]
    /\ UNCHANGED <<facebook, exports, csv, start>>
    /\ UNCHANGED processVars

\* The same for a run of csv_importer.import_csv in `mode` on `rows`.
OtherImport(mode, rows) ==
    /\ steps' = steps + 1
    /\ born' = Born(posts', steps + 1)
    /\ runs' = 0
    /\ authIds' = authIds \cap Ids(posts')
    /\ last' = [Step("csv_importer", {}, posts, {rows[i] : i \in 1..Len(rows)}, {}, 0)
                  EXCEPT !.mode = mode]
    /\ UNCHANGED <<facebook, exports, csv, start>>
    /\ UNCHANGED processVars

\* The pages whose fetch may fail in a run: any of the pages that have a
\* token.
Failures == SUBSET {a.page_id : a \in facebook}

\* The posts of Facebook a run gets to see when the fetch of the pages
\* `failed` returns an error.
Served(failed) == {a \in facebook : a.page_id \notin failed}

\* scheduled_sync.run_sync, one page.
ScheduledSync ==
    /\ CanStart
    /\ \E page_id \in PageIds :
         \E resp \in Responses({a \in facebook : a.page_id = page_id}, ApiMetrics, {0}) :
           /\ resp # {}
           /\ posts' = save_posts_to_db(posts, page_id, resp)
           /\ Other("scheduled_sync", {get_core_id(o.id) : o \in resp}, resp, 0)

\* fetch_all_pages.main
FetchAllPages ==
    /\ CanStart
    /\ \E failed \in Failures :
         \E resp \in Responses(Served(failed), ApiMetrics \cup {FailedMetrics}, {0}) :
           /\ resp # {}
           /\ posts' = save_results(posts, resp)
           /\ OtherPages("fetch_all_pages", {o.id : o \in resp}, resp, 0, failed)

\* fetch_missing_posts.main
FetchMissingPosts ==
    /\ CanStart
    /\ \E resp \in Responses(facebook, ApiMetrics \cup {FailedMetrics}, {0}) :
           /\ resp # {}
           /\ posts' = fetch_missing_posts(posts, resp)
           /\ Other("fetch_missing_posts",
                    {p.post_id : p \in posts' \ posts}, resp, 0)

\* full_month_sync.sync_project
FullMonthSync ==
    /\ CanStart
    /\ \E month \in {MonthOf(a.created_time) : a \in facebook} :
         \E failed \in Failures :
           \E resp \in Responses(Served(failed), ApiMetrics, {0}) :
             /\ posts' = sync_project(posts, month, resp)
             /\ OtherPages("full_month_sync", {get_core_id(o.id) : o \in resp},
                           resp, month, failed)

\* send_daily_report_v2: the T+1 sync of one date.
T1Sync ==
    /\ CanStart
    /\ \E date \in {DateOf(a.created_time) : a \in facebook} :
         \E resp \in Responses({a \in facebook : DateOf(a.created_time) = date},
                               ApiMetrics, ApiViews) :
           /\ posts' = sync_t1_data_from_api(posts, date, resp)
           /\ Other("t1_sync", {get_core_id(o.id) : o \in resp}, resp, date)

\* csv_importer.import_csv
LegacyImport ==
    /\ CanStart
    /\ \E mode \in LegacyModes :
         \E rows \in SeqsUpTo(LegacyRows, MaxBatch) :
           /\ posts' = legacy_import(posts, mode, rows)
           /\ OtherImport(mode, rows)

\* cleanup_duplicates.cleanup_duplicates
CleanupDuplicates ==
    /\ CanStart
    /\ \E S \in cleanup_duplicates(posts) :
           /\ posts' = S
           /\ Other("cleanup_duplicates", {}, {}, 0)

Next ==
    \/ ImportCsvBegin
    \/ ImportCsvRow
    \/ ScheduledSync
    \/ FetchAllPages
    \/ FetchMissingPosts
    \/ FullMonthSync
    \/ T1Sync
    \/ LegacyImport
    \/ CleanupDuplicates

Spec == Init /\ [][Next]_vars

\* refresh_engagement.main
RefreshEngagement ==
    /\ CanStart
    /\ \E resp \in Responses(facebook, ApiMetrics, {0}) :
           /\ posts' = refresh_engagement(posts, resp)
           /\ Other("refresh_engagement",
                    {p.post_id : p \in {q \in posts : refresh_single_post(q, resp) # {}}},
                    resp, 0)

\* The API syncs alone, on the posts of both pages.
InitApi ==
    /\ facebook = ApiPosts
    /\ posts = {}
    /\ exports \in CsvFiles
    /\ csv = 0
    /\ start = {}
    /\ runs = 0
    /\ authIds = {}
    /\ last = Step("init", {}, {}, {}, {}, 0)
    /\ steps = 0
    /\ born = NoHistory
    /\ NoProcesses

NextApi ==
    \/ ScheduledSync
    \/ FetchMissingPosts
    \/ FetchAllPages
    \/ FullMonthSync
    \/ RefreshEngagement

SpecApi == InitApi /\ [][NextApi]_vars

\* ------------------------------------------- the import, on richer files

\* Cells of the export the import has to cope with: a "Publish time" ten
\* and eleven minutes after API post 11 (02:10 and 02:11 UTC), an empty or
\* unparsable one, an unknown or empty page name, a page name with a
\* space, an empty Post ID, negative counts.
NegativeCounts ==
    [views |-> -2, reach |-> 0, reactions |-> -1, comments |-> 0, shares |-> 0]

PlainCounts == [views |-> 5, reach |-> 8, reactions |-> 0, comments |-> 1, shares |-> 0]

ImportTimes == {7200, 7800, 7860}

ImportRows ==
    {CsvRow("p1", t, "", c) : t \in ImportTimes, c \in {PlainCounts, NegativeCounts}}
    \cup {CsvRow(n, 7200, "", PlainCounts) : n \in {"p 1", "nobody", ""}}
    \cup {CsvRow("p1", t, "", PlainCounts) : t \in {NULL, BAD_TIME}}
    \cup {[CsvRow("p1", 7200, "", PlainCounts) EXCEPT !.post_id = ""]}

ImportFiles == SeqsUpTo(ImportRows, MaxBatch)

InitImport ==
    /\ facebook = {a \in ApiPosts : a.page_id = 1}
    /\ posts = {}
    /\ exports \in ImportFiles
    /\ csv = 0
    /\ start = {}
    /\ runs = 0
    /\ authIds = {}
    /\ last = Step("init", {}, {}, {}, {}, 0)
    /\ steps = 0
    /\ born = NoHistory
    /\ NoProcesses

NextImport ==
    \/ ImportCsvBegin
    \/ ImportCsvRow
    \/ ScheduledSync
    \/ T1Sync

SpecImport == InitImport /\ [][NextImport]_vars


\* ------------------------------------------------------------- the claims

\* ------------------------------------------ the import, tier against tier

ApiPost(n, page_id, t, title) ==
    [id |-> <<page_id, n>>, page_id |-> page_id, created_time |-> t,
     message |-> title, permalink_url |-> "fb", post_type |-> "Videos"]

\* Stores and rows that set the tiers of import_csv against each other
\* (times in UTC, date 0 starting at 0; a "Publish time" cell is given by
\* the time the import makes of it):
\*  - around midnight: posts at 23:57 of date 0 and 00:05 of date 1, one of
\*    the other page at 00:02, and a row of 00:02 of date 1;
\*  - captions: posts of date 0 at 10:00 and 13:53 and one of date 2, the
\*    last two with the caption of the rows of 10:05 and 12:00 of date 0
\*    and 12:00 of date 1;
\*  - caption lengths: posts of date 2 with captions of 19, 20 and 21
\*    characters and rows of date 0 with the same captions;
\*  - the hour around a row: posts at 10:00 and 10:45 of date 0, one of the
\*    other page at 10:30, rows of 10:30 and 11:00 and a row whose time
\*    cannot be parsed.
MatchRow(t, title) == CsvRow("p1", t - CSV_OFFSET, title, PlainCounts)

MatchCases ==
    {[facebook |-> {ApiPost(31, 1, 86220, ""), ApiPost(32, 1, 86700, ""),
                    ApiPost(33, 2, 86520, "")},
      rows |-> {MatchRow(86520, "")}],
     [facebook |-> {ApiPost(41, 1, 36030, "reel"),
                    ApiPost(42, 1, 50000, "twenty-one characters"),
                    ApiPost(43, 1, 200000, "twenty-one characters")},
      rows |-> {MatchRow(t, "twenty-one characters") : t \in {36300, 43200, 129600}}],
     [facebook |-> {ApiPost(44, 1, 200000, "nineteen characters"),
                    ApiPost(45, 1, 203600, "twenty characters ok"),
                    ApiPost(46, 1, 207200, "twenty-one characters")},
      rows |-> {MatchRow(43200, title) :
                  title \in {"nineteen characters", "twenty characters ok",
                             "twenty-one characters"}}],
     [facebook |-> {ApiPost(51, 1, 36030, ""), ApiPost(52, 1, 38700, ""),
                    ApiPost(53, 2, 37800, "")},
      rows |-> {MatchRow(t, "") : t \in {37800, 39630}}
               \cup {CsvRow("p1", BAD_TIME, "", PlainCounts)}]}

InitMatch ==
    /\ \E c \in MatchCases :
         /\ facebook = c.facebook
         /\ exports \in SeqsUpTo(c.rows, MaxBatch)
    /\ posts = {}
    /\ csv = 0
    /\ start = {}
    /\ runs = 0
    /\ authIds = {}
    /\ last = Step("init", {}, {}, {}, {}, 0)
    /\ steps = 0
    /\ born = NoHistory
    /\ NoProcesses

\* The store is filled by one sync, fetch_all_pages or the T+1 sync of a
\* date, before the export is imported.
FirstFetchAllPages == steps = 0 /\ FetchAllPages

FirstT1Sync == steps = 0 /\ T1Sync

NextMatch ==
    \/ FirstFetchAllPages
    \/ FirstT1Sync
    \/ ImportCsvBegin
    \/ ImportCsvRow

SpecMatch == InitMatch /\ [][NextMatch]_vars

\* ------------------------------------------ the cleanup, with its history

\* The syncs that store a post under its two ids and the cleanup, with the
\* history of insertions kept.
InitCleanup ==
    /\ facebook = {a \in ApiPosts : a.page_id = 1}
    /\ posts = {}
    /\ exports \in CsvFiles
    /\ csv = 0
    /\ start = {}
    /\ runs = 0
    /\ authIds = {}
    /\ last = Step("init", {}, {}, {}, {}, 0)
    /\ steps = 0
    /\ born = <<>>
    /\ NoProcesses

NextCleanup ==
    \/ ScheduledSync
    \/ FetchAllPages
    \/ CleanupDuplicates

SpecCleanup == InitCleanup /\ [][NextCleanup]_vars

\* ------------------------------------- fetch_all_pages, thread by thread

\* The threads of the pool of main that run fetch_single_page, and the
\* requests to the Graph API in flight: those of fetch_page_posts and those
\* of process_post.
PageThreads == {l \in Labels : page_job[l] \in {"fetching", "processing"}}

PostThreads == UNION {{<<l, i>> : i \in 1..running[l]} : l \in Labels}

Requests == Cardinality({l \in Labels : page_job[l] = "fetching"})
            + Cardinality(PostThreads)

InitPool ==
    /\ facebook = {}
    /\ posts = {}
    /\ exports = <<>>
    /\ csv = 0
    /\ start = {}
    /\ runs = 0
    /\ authIds = {}
    /\ last = Step("init", {}, {}, {}, {}, 0)
    /\ steps = 0
    /\ born = NoHistory
    /\ NoDaemon
    /\ NoStartup
    /\ page_job = [l \in Labels |-> "submitted"]
    /\ waiting = [l \in Labels |-> 0]
    /\ running = [l \in Labels |-> 0]

\* A thread of the pool of main takes the task of a page: fetch_single_page
\* starts and requests the posts of the page.
PageStart ==
    /\ \E l \in Labels :
         /\ page_job[l] = "submitted"
         /\ Cardinality(PageThreads) < MAX_WORKERS
         /\ page_job' = [page_job EXCEPT ![l] = "fetching"]
    /\ UNCHANGED <<waiting, running>>
    /\ UNCHANGED <<storeVars, daemonVars, startVars>>

\* fetch_page_posts returns: an error ends the task, n posts are submitted
\* to a pool of the page's own.
PageFetched ==
    /\ \E l \in Labels :
         /\ page_job[l] = "fetching"
         /\ \/ /\ page_job' = [page_job EXCEPT ![l] = "done"]
               /\ UNCHANGED waiting
            \/ \E n \in 0..MaxPosts :
                 /\ page_job' = [page_job EXCEPT ![l] = "processing"]
                 /\ waiting' = [waiting EXCEPT ![l] = n]
    /\ UNCHANGED running
    /\ UNCHANGED <<storeVars, daemonVars, startVars>>

\* A thread of the pool of a page takes a post: process_post requests its
\* counts.
PostStart ==
    /\ \E l \in Labels :
         /\ page_job[l] = "processing"
         /\ waiting[l] > 0
         /\ running[l] < MAX_WORKERS
         /\ waiting' = [waiting EXCEPT ![l] = @ - 1]
         /\ running' = [running EXCEPT ![l] = @ + 1]
    /\ UNCHANGED page_job
    /\ UNCHANGED <<storeVars, daemonVars, startVars>>

\* process_post returns.
PostDone ==
    /\ \E l \in Labels :
         /\ running[l] > 0
         /\ running' = [running EXCEPT ![l] = @ - 1]
    /\ UNCHANGED <<page_job, waiting>>
    /\ UNCHANGED <<storeVars, daemonVars, startVars>>

\* The pool of the page is drained and fetch_single_page returns.
PageDone ==
    /\ \E l \in Labels :
         /\ page_job[l] = "processing"
         /\ waiting[l] = 0
         /\ running[l] = 0
         /\ page_job' = [page_job EXCEPT ![l] = "done"]
    /\ UNCHANGED <<waiting, running>>
    /\ UNCHANGED <<storeVars, daemonVars, startVars>>

NextPool ==
    \/ PageStart
    \/ PageFetched
    \/ PostStart
    \/ PostDone
    \/ PageDone

SpecPool == InitPool /\ [][NextPool]_vars

\* --------------------------------------- the daemon, instance by instance

InitStartup ==
    /\ facebook = {}
    /\ posts = {}
    /\ exports = <<>>
    /\ csv = 0
    /\ start = {}
    /\ runs = 0
    /\ authIds = {}
    /\ last = Step("init", {}, {}, {}, {}, 0)
    /\ steps = 0
    /\ born = NoHistory
    /\ NoDaemon
    /\ NoPool
    /\ NoStartup

\* An instance is started: a new process enters main.
Launch ==
    /\ launched < MaxLaunches
    /\ \E i \in Instances :
         /\ inst[i] = "off"
         /\ inst' = [inst EXCEPT ![i] = "main"]
         /\ pid' = [pid EXCEPT ![i] = launched + 1]
    /\ launched' = launched + 1
    /\ UNCHANGED pid_file
    /\ UNCHANGED <<storeVars, daemonVars, poolVars>>

\* main calls check_already_running and returns when it says so.
CheckAlreadyRunning ==
    /\ \E i \in Instances :
         /\ inst[i] = "main"
         /\ inst' = [inst EXCEPT ![i] = IF check_already_running
                                        THEN "off" ELSE "unique"]
    /\ UNCHANGED <<pid, pid_file, launched>>
    /\ UNCHANGED <<storeVars, daemonVars, poolVars>>

\* write_pid, atexit.register(cleanup_pid), load_state.
WritePid ==
    /\ \E i \in Instances :
         /\ inst[i] = "unique"
         /\ pid_file' = pid[i]
         /\ inst' = [inst EXCEPT ![i] = "written"]
    /\ UNCHANGED <<pid, launched>>
    /\ UNCHANGED <<storeVars, daemonVars, poolVars>>

\* The initial hourly_check; the instance is in its loop from then on.
InitialCheck ==
    /\ \E i \in Instances :
         /\ inst[i] = "written"
         /\ inst' = [inst EXCEPT ![i] = "loop"]
    /\ UNCHANGED <<pid, pid_file, launched>>
    /\ UNCHANGED <<storeVars, daemonVars, poolVars>>

\* Ctrl+C: the interpreter exits and cleanup_pid removes the PID file.
Interrupt ==
    /\ \E i \in Instances :
         /\ inst[i] \in {"written", "loop"}
         /\ inst' = [inst EXCEPT ![i] = "off"]
    /\ pid_file' = 0
    /\ UNCHANGED <<pid, launched>>
    /\ UNCHANGED <<storeVars, daemonVars, poolVars>>

\* The process is killed: nothing is cleaned up.
Kill ==
    /\ \E i \in Instances :
         /\ inst[i] # "off"
         /\ inst' = [inst EXCEPT ![i] = "off"]
    /\ UNCHANGED <<pid, pid_file, launched>>
    /\ UNCHANGED <<storeVars, daemonVars, poolVars>>

NextStartup ==
    \/ Launch
    \/ CheckAlreadyRunning
    \/ WritePid
    \/ InitialCheck
    \/ Interrupt
    \/ Kill

SpecStartup == InitStartup /\ [][NextStartup]_vars

\* ------------------------------------------------- the daemon, on its own

\* What hourly_check(st) does when started at slot t: fetch_api runs
\* fetch_missing_posts, which inserts the posts `fetched` and sends an alert
\* for each; then the posts of the last two hours are notified and the
\* state is saved.  `okF` and `okN` are the posts whose alert is delivered
\* by the one and by the other, d the slot boundaries the run crosses.
hourly_check(st, t, fetched, okF, okN, d) ==
    LET table == stored \cup fetched
        recent == get_recent_posts(table, on_facebook, t + d, RECENT_HOURS)
        n == notify_new_posts(Newest(recent, on_facebook), st, okN)
    IN [state |-> n.state,
        stored |-> table,
        alerts |-> Delivered(Delivered(alerts, fetched, okF), n.sent, okN),
        by_fetch |-> fetched \cap okF,
        by_daemon |-> n.sent \cap okN]

\* daily_push(st) at slot t: the date is recorded and saved first.
daily_push(st, t) == [st EXCEPT !.last_push_date = Today(t)]

Unfetched == {p \in NewPosts : on_facebook[p] # NULL} \ stored

InitDaemon ==
    /\ facebook = {}
    /\ posts = {}
    /\ exports = <<>>
    /\ csv = 0
    /\ start = {}
    /\ runs = 0
    /\ authIds = {}
    /\ last = Step("init", {}, {}, {}, {}, 0)
    /\ steps = 0
    /\ born = NoHistory
    /\ now \in StartSlots
    /\ started = now
    /\ pc = "start"
    /\ state = DefaultState
    /\ state_file = DefaultState
    /\ last_hourly_check = NULL
    /\ on_facebook = [p \in NewPosts |-> NULL]
    /\ stored = {}
    /\ pushes = [d \in Dates |-> 0]
    /\ alerts = [p \in NewPosts |-> 0]
    /\ restarts = 0
    /\ NoPool
    /\ NoStartup

\* A page publishes a post.
Publish ==
    /\ now < Horizon
    /\ \E p \in NewPosts :
         /\ on_facebook[p] = NULL
         /\ on_facebook' = [on_facebook EXCEPT ![p] = now]
    /\ UNCHANGED <<now, pc, state, state_file, last_hourly_check, stored,
                   pushes, alerts, started, restarts>>
    /\ UNCHANGED <<storeVars, poolVars, startVars>>

\* main, from load_state to the loop: the initial check.
DaemonMain ==
    /\ pc = "start"
    /\ now < Horizon
    /\ \E fetched \in SUBSET Unfetched, okN \in SUBSET NewPosts, d \in CheckDurations :
       \E okF \in SUBSET fetched :
         LET h == hourly_check(state_file, now, fetched, okF, okN, d)
         IN /\ state' = h.state
            /\ state_file' = h.state
            /\ stored' = h.stored
            /\ alerts' = h.alerts
            /\ now' = now + d
            /\ last_hourly_check' = now + d
    /\ pc' = "loop"
    /\ UNCHANGED <<on_facebook, pushes, started, restarts>>
    /\ UNCHANGED <<storeVars, poolVars, startVars>>

\* One turn of the loop of main: the push if it is due, the check if it is
\* due, the sleep.
DaemonLoop ==
    /\ pc = "loop"
    /\ now < Horizon
    /\ LET push == PushDue(now, state)
           check == CheckDue(now, last_hourly_check)
           st == IF push THEN daily_push(state, now) ELSE state
       IN \E dp \in IF push THEN PushDurations ELSE {0},
             dc \in IF check THEN CheckDurations ELSE {0},
             fetched \in IF check THEN SUBSET Unfetched ELSE {{}},
             okN \in IF check THEN SUBSET NewPosts ELSE {{}},
             sleep \in SleepDurations :
          \E okF \in SUBSET fetched :
            LET h == hourly_check(st, now + dp, fetched, okF, okN, dc)
            IN /\ pushes' = IF push THEN [pushes EXCEPT ![Today(now)] = @ + 1]
                            ELSE pushes
               /\ state' = IF check THEN h.state ELSE st
               /\ state_file' = IF check THEN h.state
                                ELSE IF push THEN st ELSE state_file
               /\ stored' = IF check THEN h.stored ELSE stored
               /\ alerts' = IF check THEN h.alerts ELSE alerts
               /\ last_hourly_check' = IF check THEN now ELSE last_hourly_check
               /\ now' = now + dp + dc + sleep
    /\ UNCHANGED <<pc, on_facebook, started, restarts>>
    /\ UNCHANGED <<storeVars, poolVars, startVars>>

\* The daemon is killed between two turns and started again at once.
DaemonRestart ==
    /\ pc = "loop"
    /\ now < Horizon
    /\ restarts < MaxRestarts
    /\ pc' = "start"
    /\ state' = DefaultState
    /\ last_hourly_check' = NULL
    /\ restarts' = restarts + 1
    /\ UNCHANGED <<now, state_file, on_facebook, stored, pushes, alerts, started>>
    /\ UNCHANGED <<storeVars, poolVars, startVars>>

NextDaemon ==
    \/ Publish
    \/ DaemonMain
    \/ DaemonLoop
    \/ DaemonRestart

SpecDaemon == InitDaemon /\ [][NextDaemon]_vars


\* A stored count, NULL read as 0.
Stored(x) == IF x = NULL THEN 0 ELSE x

\* n is the larger of a and b.
LargerOf(n, a, b) == n >= a /\ n >= b /\ (n = a \/ n = b)

CsvMergeOps == {"csv_update", "csv_update_synthetic", "csv_create"}

CsvOps == CsvMergeOps \cup {"csv_skip", "csv_begin", "csv_importer"}

ApiSyncOps == {"scheduled_sync", "fetch_all_pages", "fetch_missing_posts",
               "full_month_sync", "t1_sync"}

\* The post the last step merged into or created, before and after.
Before(id) == CHOOSE p \in last.before : p.post_id = id

After(id) == CHOOSE p \in posts : p.post_id = id

C2_NoMetricRegresses ==
    \A p \in last.before : \A q \in posts :
        q.post_id = p.post_id =>
            \A f \in Metrics : Stored(q[f]) >= Stored(p[f])

\* C3: right after import_csv updated or created a post, its
\* total_engagement is reactions_total + comments_count + shares_count.
C3_EngagementIsSum ==
    last.op \in CsvMergeOps =>
        \A id \in last.ids :
            After(id).total_engagement =
                After(id).reactions_total + After(id).comments_count
                + After(id).shares_count

\* C4: a second run of import_csv on the same file, right after the first,
\* leaves the table as the first run left it: no new post, no count changed.
C4_ImportIdempotent ==
    (csv = 0 /\ runs >= 2) =>
        /\ Ids(posts) = Ids(start)
        /\ \A p \in start : \A q \in posts :
              q.post_id = p.post_id =>
                  /\ \A f \in Metrics : q[f] = p[f]
                  /\ q.total_engagement = p.total_engagement

\* C5: after any sequence of API syncs the table holds at most one post
\* for a post of Facebook, whichever form of its id is the key.
C5_OnePostPerApiId ==
    \A a \in facebook :
        Cardinality({p \in posts : /\ p.page_id = a.page_id
                                   /\ p.post_id \in {a.id, get_core_id(a.id)}}) <= 1

\* The last segment of a post_id.
LastSegment(post_id) == post_id[Len(post_id)]

\* p was collapsed into a post of the same page and core id that is kept.
Collapsed(p) ==
    /\ last.op = "cleanup_duplicates"
    /\ \E q \in posts : /\ q.page_id = p.page_id
                        /\ LastSegment(q.post_id) = LastSegment(p.post_id)

\* C6, as claimed: a post leaves the table only when cleanup_duplicates
\* collapses it into a duplicate that is kept.
C6_OnlyCleanupDeletes ==
    \A p \in last.before : p.post_id \notin Ids(posts) => Collapsed(p)

\* p lay in the period a sync of the API brought in line and was not among
\* the posts the API returned for it.
Superseded(p) ==
    /\ p.time_fmt = "iso"
    /\ \/ last.op = "full_month_sync" /\ MonthOf(p.publish_time) = last.period
       \/ last.op = "t1_sync" /\ DateOf(p.publish_time) = last.period
    /\ \A o \in last.resp : p.post_id # <<LastSegment(o.id)>>

\* C6, amended: a post leaves the table only when cleanup_duplicates
\* collapses it into a duplicate that is kept, or when the month sync or
\* the T+1 sync finds it stored for the synced month or date and absent
\* from the posts the API returned.
C6_DeletedOnlyByCleanupOrPeriodSync ==
    \A p \in last.before :
        p.post_id \notin Ids(posts) => Collapsed(p) \/ Superseded(p)

\* The month sync has deleted a post the CSV import had created.
C6_Witness ==
    /\ last.op = "full_month_sync"
    /\ \E p \in last.before : p.post_id \notin Ids(posts) /\ IsSynthetic(p.post_id)

\* The posts of `store` published on the page and in the minute of the
\* API's post o.
SameMinute(store, o) ==
    {p \in store : /\ p.page_id = o.page_id
                   /\ p.time_fmt = "iso"
                   /\ MinuteOf(p.publish_time) = MinuteOf(o.created_time)}

\* C7: when an API sync brings a post that the table holds only under a
\* synthetic csv_ id (same page, same minute), the table afterwards holds
\* one post for it, under the API's id, with the views and reach it had.
C7_SyntheticIsRekeyed ==
    last.op \in ApiSyncOps =>
        \A o \in last.resp : \A s \in SameMinute(last.before, o) :
            (SameMinute(last.before, o) = {s} /\ IsSynthetic(s.post_id)) =>
                /\ Cardinality(SameMinute(posts, o)) = 1
                /\ \A q \in SameMinute(posts, o) :
                      /\ q.post_id \in {o.id, get_core_id(o.id)}
                      /\ q.views_count = s.views_count
                      /\ q.reach_count = s.reach_count

\* C8: a CSV import leaves the title, the permalink and the post_type of
\* a post an API sync wrote as they were.
C8_CsvKeepsApiFields ==
    last.op \in CsvOps =>
        \A p \in last.before : \A q \in posts :
            (p.post_id \in authIds /\ q.post_id = p.post_id) =>
                /\ q.title = p.title
                /\ q.permalink = p.permalink
                /\ q.post_type = p.post_type

\* Two posts under different ids.
Pairs(store) == {pq \in store \X store : pq[1].post_id # pq[2].post_id}

\* How many of the two are stored.
Kept(pq) == Cardinality({pq[1].post_id, pq[2].post_id} \cap Ids(posts))

\* C9, as claimed: of two posts of one page with the same publish minute
\* and title but different ids, one run of cleanup_duplicates leaves one.
C9_SameTimeAndTitleCollapse ==
    last.op = "cleanup_duplicates" =>
        \A pq \in Pairs(last.before) :
            ( /\ pq[1].page_id = pq[2].page_id
              /\ pq[1].time_fmt = "iso" /\ pq[2].time_fmt = "iso"
              /\ MinuteOf(pq[1].publish_time) = MinuteOf(pq[2].publish_time)
              /\ pq[1].title = pq[2].title ) => Kept(pq) = 1

\* The posts of `store` with the page and the core id of p.
SameCore(store, p) ==
    {q \in store : /\ q.page_id = p.page_id
                   /\ LastSegment(q.post_id) = LastSegment(p.post_id)}

\* C9, amended: of two posts of one page whose ids differ but end in the
\* same core id (the segment after the last underscore), one run of
\* cleanup_duplicates leaves exactly one post of that page and core id;
\* it adds no post and deletes no post that is alone with its core id.
C9_SameCoreIdCollapse ==
    last.op = "cleanup_duplicates" =>
        /\ posts \subseteq last.before
        /\ \A pq \in Pairs(last.before) :
              pq[2] \in SameCore(last.before, pq[1]) =>
                  Cardinality(SameCore(posts, pq[1])) = 1
        /\ \A p \in last.before :
              SameCore(last.before, p) = {p} => p \in posts

\* cleanup_duplicates has collapsed "<page>_<n>" and "<n>" into one.
C9_Witness ==
    /\ last.op = "cleanup_duplicates"
    /\ \E pq \in Pairs(last.before) :
          /\ SameCore(last.before, pq[1]) = {pq[1], pq[2]}
          /\ Kept(pq) = 1

\* C10: the post cleanup_duplicates keeps of a group has, of every count,
\* the largest value a member of the group had before the run.
C10_SurvivorHoldsMaxima ==
    last.op = "cleanup_duplicates" =>
        \A k \in posts :
            Cardinality(SameCore(last.before, k)) > 1 =>
                \A f \in Metrics : \A p \in SameCore(last.before, k) :
                    Stored(k[f]) >= Stored(p[f])

\* C11: after a run of cleanup_duplicates no two posts have the same page
\* and core id, and a second run, started at once, has one possible
\* outcome: the table as it is.
C11_CleanupIdempotent ==
    last.op = "cleanup_duplicates" =>
        /\ \A p \in posts : SameCore(posts, p) = {p}
        /\ cleanup_duplicates(posts) = {posts}

\* cleanup_duplicates has deleted a post.
C11_Witness ==
    /\ last.op = "cleanup_duplicates"
    /\ posts # last.before
    /\ cleanup_duplicates(posts) = {posts}

\* The row of the last turn of the import loop, its page and its time.
TheRow == CHOOSE r \in last.rows : TRUE

RowPage == resolve_page(TheRow.page_name)

RowTime == parse_datetime_with_offset(TheRow.publish_time)

\* A turn of the loop on a row without title that has a page and a time.
UntitledTurn ==
    /\ last.op \in CsvMergeOps
    /\ TheRow.title = ""
    /\ RowTime # BAD_TIME

\* The posts of the row's page, and how many minutes one is from the row.
PagePosts == {p \in last.before : p.page_id = RowPage /\ p.time_fmt = "iso"}

MinutesAway(p) == Abs(MinuteOf(p.publish_time) - MinuteOf(RowTime))

\* The nearest post of the page is n minutes from the row.
NearestIs(n) ==
    /\ \E p \in PagePosts : MinutesAway(p) = n
    /\ \A p \in PagePosts : MinutesAway(p) >= n

\* C12, its first half: a row without title ten minutes from the nearest
\* post of its page is merged into a post ten minutes away.
TenMinutesMerge ==
    (UntitledTurn /\ NearestIs(10)) =>
        /\ last.op = "csv_update"
        /\ \A id \in last.ids : MinutesAway(Before(id)) = 10

\* C12, as claimed: ten minutes away merges; eleven minutes from the
\* nearest post of the page merges into nothing and creates a post.
C12_FuzzyBoundary ==
    /\ TenMinutesMerge
    /\ (UntitledTurn /\ NearestIs(11)) => last.op = "csv_create"

\* The posts the closest-time tier takes for the row: of the page and the
\* date of the row, with no views above 0, less than an hour away, none
\* nearer.
Fallback ==
    LET cands == {p \in PagePosts : /\ DateOf(p.publish_time) = DateOf(RowTime)
                                    /\ (p.views_count = NULL \/ p.views_count <= 0)}
        far(p) == Abs(p.publish_time - RowTime)
    IN {p \in cands : far(p) < 3600 /\ \A q \in cands : far(p) <= far(q)}

\* C12, amended: ten minutes away merges; a row eleven minutes from the
\* nearest post of its page is past the fuzzy tier, and is merged into the
\* closest post of its page and date whose views_count is not above 0
\* and that is less than sixty minutes away; only when there is none does
\* it create a post.
C12_FuzzyBoundaryWithFallback ==
    /\ TenMinutesMerge
    /\ (UntitledTurn /\ NearestIs(11)) =>
          IF Fallback = {}
          THEN last.op = "csv_create"
          ELSE last.op = "csv_update" /\ last.ids \subseteq Ids(Fallback)

\* A row eleven minutes from a post with views has created a post.
C12_Witness ==
    /\ UntitledTurn /\ NearestIs(11)
    /\ last.op = "csv_create"

\* A turn of the import loop.
RowTurn == last.op \in CsvMergeOps \cup {"csv_skip"}

\* C13: a row whose publish time is empty or cannot be parsed, or whose
\* page name is empty or names no page, is skipped: the turn changes no
\* post and creates none.
C13_BadRowsRejected ==
    ( /\ RowTurn
      /\ \/ TheRow.publish_time \in {NULL, BAD_TIME}
         \/ TheRow.page_name = ""
         \/ RowPage = NULL ) =>
        /\ last.op = "csv_skip"
        /\ posts = last.before

\* The cell of a row that feeds a count of a post.
Cell(row, f) ==
    CASE f = "views_count" -> row.views
      [] f = "reach_count" -> row.reach
      [] f = "reactions_total" -> row.reactions
      [] f = "comments_count" -> row.comments
      [] f = "shares_count" -> row.shares

\* C14: a negative count in a row counts as zero: merged into a post it
\* lowers no count of it, and a post created from the row holds 0 for it.
C14_NegativeIsZero ==
    last.op \in CsvMergeOps =>
        \A f \in Metrics : \A id \in last.ids :
            (Cell(TheRow, f) # NULL /\ Cell(TheRow, f) < 0) =>
                IF last.op = "csv_create"
                THEN After(id)[f] = 0
                ELSE After(id)[f] >= Stored(Before(id)[f])

\* "Post ID" cells of the manual export: empty, rounded by the
\* spreadsheet, exact.
PostIdCells == {"", "1.22E+17", "11"}

\* The tables a turn of import_manual_exports.import_csv may leave.
Tables(store, row) == {r.posts : r \in import_row(store, row)}

\* C15: what a CSV import does with a row does not depend on the row's
\* Post ID: on the same table, rows that differ in the Post ID only leave
\* the same table, in import_manual_exports.import_csv and in
\* csv_importer.import_csv.
C15_PostIdIrrelevant ==
    /\ RowTurn =>
          \A v \in PostIdCells :
              Tables(last.before, [TheRow EXCEPT !.post_id = v])
                  = Tables(last.before, TheRow)
    /\ last.op = "csv_importer" =>
          \A mode \in LegacyModes : \A row \in LegacyRows :
              \A id \in {r.post_id : r \in LegacyRows} :
                  legacy_row(last.before, mode, [row EXCEPT !.post_id = id])
                      = legacy_row(last.before, mode, row)

\* The posts under a synthetic id that hold a parsed time.
SyntheticPosts == {p \in posts : IsSynthetic(p.post_id) /\ p.time_fmt = "iso"}

C17_FailedPageUntouched ==
    last.op \in {"fetch_all_pages", "full_month_sync"} =>
        \A p \in last.before : p.page_id \in last.failed => p \in posts

\* The ids the API returned for the month of the last month sync, as the
\* sync keys them, and the ids stored with a publish_time of that month.
ApiIdsOfMonth ==
    {<<LastSegment(o.id)>> : o \in {x \in last.resp : MonthOf(x.created_time) = last.period}}

StoredIdsOfMonth ==
    {p.post_id : p \in {q \in posts : /\ q.time_fmt = "iso"
                                      /\ MonthOf(q.publish_time) = last.period}}

WithViews(store) == {p \in store : p.views_count # NULL /\ p.views_count > 0}

\* The date a post is stored under, for the texts that hold one.
HasDate(p) == p.time_fmt \in {"iso", "mdy"}

\* The fields fetch_missing_posts never writes on a stored post.
SameButEngagement(p, q) ==
    /\ q.post_id = p.post_id /\ q.page_id = p.page_id
    /\ q.title = p.title /\ q.permalink = p.permalink
    /\ q.post_type = p.post_type
    /\ q.publish_time = p.publish_time /\ q.time_fmt = p.time_fmt
    /\ q.views_count = p.views_count /\ q.reach_count = p.reach_count

\* C19: fetch_missing_posts inserts no post on a date that has a stored
\* post with views, replaces no stored post when it inserts (of a stored
\* post it rewrites the engagement counts at most), and leaves every
\* stored post with views exactly as it was.
C19_CsvDataHasPriority ==
    last.op = "fetch_missing_posts" =>
        /\ \A n \in posts : n.post_id \notin Ids(last.before) =>
              \A q \in WithViews(last.before) :
                  HasDate(q) => DateOf(q.publish_time) # DateOf(n.publish_time)
        /\ \A p \in last.before : \E q \in posts : SameButEngagement(p, q)
        /\ WithViews(last.before) \subseteq posts

\* fetch_missing_posts has met a post of the API that is not stored, on a
\* date with CSV data, and has not inserted it.
C19_Witness ==
    /\ last.op = "fetch_missing_posts"
    /\ WithViews(last.before) # {}
    /\ \E o \in last.resp : o.id \notin Ids(posts)

\* The Post IDs of the rows of the file csv_importer.import_csv read.
FileIds == {r.post_id : r \in last.rows}

\* C20: csv_importer.import_csv in mode 'replace' leaves only posts of
\* the imported file in the table; in mode 'append' it leaves a stored
\* post that a row of the file names as it was.
C20_ReplaceClearsAppendSkips ==
    last.op = "csv_importer" =>
        /\ last.mode = "replace" => Ids(posts) \subseteq FileIds
        /\ last.mode = "append" =>
              \A p \in last.before : p.post_id \in FileIds => p \in posts

\* The slot of date d in which the push is due.
PushSlot(d) == d * SlotsPerDay + PUSH_HOUR * SlotsPerHour + PUSH_MINUTE \div PUSH_WINDOW

\* The push time of date d has passed while the daemon ran: it was started
\* before 06:00 of that date and the clock is past 06:04.
WindowPassed(d) == pc # "off" /\ started < PushSlot(d) /\ now > PushSlot(d)

\* C21: daily_push runs exactly once on every date whose 06:00 push time
\* passes while the daemon runs: never twice on one date, restarts
\* included, and never skipped, however long the hourly checks take.
C21_PushOncePerDay ==
    \A d \in Dates :
        /\ pushes[d] <= 1
        /\ WindowPassed(d) => pushes[d] = 1

\* The hits of the four tiers for the row of the last turn, each taken by
\* itself on the table the turn found: the posts of the row's page in the
\* row's minute, those one to ten minutes from it, those of the row's date
\* with the row's title, and those with the row's title when it is long
\* enough.
SameTitle(p) == p.title # NullText /\ LOWER(p.title) = LOWER(TheRow.title)

TierHits ==
    LET timed == RowTime # BAD_TIME
        page == {p \in last.before : p.page_id = RowPage}
    IN << {p \in PagePosts : timed /\ MinutesAway(p) = 0},
          {p \in PagePosts : timed /\ MinutesAway(p) \in 1..10},
          {p \in PagePosts : /\ timed
                             /\ TheRow.title # ""
                             /\ DateOf(p.publish_time) = DateOf(RowTime)
                             /\ SameTitle(p)},
          {p \in page : /\ TheRow.title # ""
                        /\ TitleLen(TheRow.title) > TITLE_MIN_LEN
                        /\ SameTitle(p)} >>

\* The first tier that has a hit, 0 when none has.
EarliestTier ==
    LET ks == {k \in 1..4 : TierHits[k] # {}}
    IN IF ks = {} THEN 0 ELSE CHOOSE k \in ks : \A j \in ks : k <= j

\* C22: import_csv tries the exact minute, the fuzzy window, the title on
\* the same date and the title on any date in this order: when any of them
\* has a hit, the row is merged into a hit of the earliest that has one,
\* whatever the later ones would have found.
C22_EarliestTierWins ==
    (last.op \in CsvMergeOps /\ EarliestTier # 0) =>
        /\ last.op = "csv_update"
        /\ last.ids \subseteq Ids(TierHits[EarliestTier])

\* A row was merged into the post five minutes from it although another
\* post of the same date carries its title.
C22_Witness ==
    /\ last.op = "csv_update"
    /\ EarliestTier = 2
    /\ TierHits[3] # {}
    /\ TierHits[2] \cap TierHits[3] = {}

\* The row of the last turn was resolved by the fuzzy tier: the exact
\* minute had no hit, the window had one.
FuzzyTurn == last.op \in CsvMergeOps /\ EarliestTier = 2

\* The post taken is of the row's page, one to ten minutes from the row,
\* and no hit of the window is nearer.
NearestOfWindow(p) ==
    /\ p.page_id = RowPage
    /\ MinutesAway(p) \in 1..10
    /\ \A q \in TierHits[2] : MinutesAway(p) <= MinutesAway(q)

\* C23, as claimed: the fuzzy tier matches only a post of the row's page
\* and of the calendar date of the row's offset-adjusted time, and among
\* the hits one with the smallest absolute minute offset.
C23_FuzzySameDateNearest ==
    FuzzyTurn =>
        \A id \in last.ids :
            /\ NearestOfWindow(Before(id))
            /\ DateOf(Before(id).publish_time) = DateOf(RowTime)

\* C23, amended: the fuzzy tier matches only a post of the row's page one
\* to ten minutes from the row's offset-adjusted time, whatever its date
\* (the window reaches across midnight), and among the hits one with the
\* smallest absolute minute offset.
C23_FuzzyNearest ==
    FuzzyTurn => \A id \in last.ids : NearestOfWindow(Before(id))

\* A row of 00:02 was merged into the post of 23:57 of the day before.
C23_Witness ==
    /\ FuzzyTurn
    /\ \E id \in last.ids : DateOf(Before(id).publish_time) # DateOf(RowTime)

\* The posts of the row's page that carry the row's title.
Titled == {p \in last.before : p.page_id = RowPage /\ SameTitle(p)}

\* A turn on a titled row that the minute, the window and the title on the
\* row's date do not resolve, while posts of other dates carry its title.
AnyDateTurn ==
    /\ last.op \in CsvMergeOps
    /\ TheRow.title # ""
    /\ \A k \in 1..3 : TierHits[k] = {}
    /\ Titled # {}

\* The any-date title match is made for the titles of more than n
\* characters and for no other.
AnyDateAbove(n) ==
    AnyDateTurn =>
        IF TitleLen(TheRow.title) > n
        THEN last.op = "csv_update" /\ last.ids \subseteq Ids(Titled)
        ELSE last.ids \cap Ids(Titled) = {}

\* C24, as claimed: the any-date title match is attempted exactly when the
\* title has at least 20 characters: a title of 20 characters is matched,
\* one of 19 is not.
C24_AnyDateFromTwenty == AnyDateAbove(TITLE_MIN_LEN - 1)

\* C24, amended: the any-date title match is attempted exactly when the
\* title has more than 20 characters: a title of 21 characters is matched,
\* one of 20 or of 19 is not.
C24_AnyDateAboveTwenty == AnyDateAbove(TITLE_MIN_LEN)

\* A row with a title of 20 characters that a post of another date carries
\* was not merged into it.
C24_Witness ==
    /\ AnyDateTurn
    /\ TitleLen(TheRow.title) = TITLE_MIN_LEN
    /\ last.op = "csv_create"

\* The members of the group of p the last step found, and those of them
\* with the highest total_engagement (NULL counted as 0).
GroupBefore(p) ==
    {q \in last.before : /\ q.page_id = p.page_id
                         /\ LastSegment(q.post_id) = LastSegment(p.post_id)}

Highest(g) == {p \in g : \A q \in g : COALESCE(p.total_engagement, 0)
                                        >= COALESCE(q.total_engagement, 0)}

C26_AtMostFiveRequests == Requests <= MAX_WORKERS

\* A turn on a row that none of the four tiers resolves, and the posts the
\* closest-time fallback may take for it (none when the row's time cannot
\* be parsed).
FallbackTurn == last.op \in CsvMergeOps /\ EarliestTier = 0

FallbackHits == IF RowTime = BAD_TIME THEN {} ELSE Fallback

\* The row is merged into one of the posts the fallback may take.
MergedByFallback ==
    /\ last.op = "csv_update"
    /\ last.ids \subseteq Ids(FallbackHits)

DetailsFailed(p) ==
    \/ /\ last.op \in {"fetch_all_pages", "fetch_missing_posts"}
       /\ \E o \in last.resp :
            /\ o.id = p.post_id
            /\ [reactions |-> o.reactions, comments |-> o.comments,
                shares |-> o.shares] = FailedMetrics
    \/ /\ last.op = "refresh_engagement"
       /\ ~IsSynthetic(p.post_id)
       /\ \E a \in facebook : a.id = <<p.page_id>> \o p.post_id
       /\ refresh_single_post(p, last.resp) = {}

Engagement(p) ==
    <<p.reactions_total, p.comments_count, p.shares_count, p.total_engagement>>

\* C28: when the request for the engagement of a post fails, the sync
\* leaves the stored reactions_total, comments_count, shares_count and
\* total_engagement of that post as they were; so in refresh_engagement,
\* in fetch_missing_posts and in fetch_all_pages.
C28_FailedRequestKeepsCounts ==
    \A p \in last.before :
        DetailsFailed(p) =>
            \E q \in posts : /\ q.post_id = p.post_id
                             /\ Engagement(q) = Engagement(p)

\* The same for refresh_engagement alone.
RefreshKeepsCounts ==
    last.op = "refresh_engagement" => C28_FailedRequestKeepsCounts

\* C29: a post triggers at most one new-post alert: once an alert for it
\* has been delivered, by fetch_missing_posts on insert or by
\* notify_new_posts, no other is sent for the same post id.
C29_OneAlertPerPost == \A p \in NewPosts : alerts[p] <= 1

\* The instances that have run hourly_check and are in the loop of main.
InLoop == {i \in Instances : inst[i] = "loop"}

\* C30: at most one instance of the daemon runs its main loop at any
\* time, however two start-ups interleave: the second finds the first
\* through the PID file and exits before hourly_check or daily_push.
C30_OneInstance == Cardinality(InLoop) <= 1

====
